---- MODULE Spec2Model ----
(***************************************************************************)
(* Model of the encrypted file upload service: the UidTracker (package     *)
(* uid), the HTTP handlers of package main that drive it, and the three    *)
(* goroutine upload pipeline (demultiplex -> encrypt -> store) with its    *)
(* two io.Pipe connectors and the filename channel.                        *)
(***************************************************************************)
EXTENDS Integers, Sequences, FiniteSets, TLC

(* ------------------------------ bounds --------------------------------- *)
\* number of HTTP requests, each served by its own handler goroutine
NumProcs == 2
\* the uint64 UID domain is cut down to 0..MaxUid; rand.Uint64 draws from it
MaxUid == 2
\* objects listed in the bucket at startup
MaxInitLen == 2
\* times Init is invoked on the tracker before the server starts serving
MaxInits == 2

\* parts of a multipart body
MaxParts == 2
\* Read calls on one part that return data without an error
MaxReads == 1
\* bytes one Read of a part returns (CHUNK_SIZE, scaled down)
MaxChunkLen == 2
\* bytes one Read of io.Copy takes from the plaintext pipe: its buffer is
\* smaller than CHUNK_SIZE
CopyBufLen == MaxChunkLen - 1

Procs == 1..NumProcs
UIDs == 0..MaxUid
\* aes.BlockSize: the length of the IV
BlockSize == 16
\* the values of a byte, cut down to one bit
Bytes == {0, 1}

(* --------------------------- strconv --------------------------------- *)
Digits == <<"0", "1", "2", "3", "4", "5", "6", "7", "8", "9">>
DigitChar(d) == Digits[d + 1]
IsDigit(c) == \E d \in 0..9 : Digits[d + 1] = c
DigitVal(c) == CHOOSE d \in 0..9 : Digits[d + 1] = c
\* strconv.FormatUint(n, 10): the decimal text of n, no leading zeros
RECURSIVE FormatUint(_)
FormatUint(n) ==
    IF n < 10 THEN <<DigitChar(n)>>
    ELSE Append(FormatUint(n \div 10), DigitChar(n % 10))

RECURSIVE DigitsValue(_)
DigitsValue(s) ==
    IF s = <<>> THEN 0
    ELSE 10 * DigitsValue(SubSeq(s, 1, Len(s) - 1)) + DigitVal(s[Len(s)])

\* (mutant) ParseUint takes any text, reading what is not a digit as 0
ParseUint_Lenient(s) ==
    [ok |-> TRUE,
     val |-> DigitsValue([i \in 1..Len(s) |-> IF IsDigit(s[i]) THEN s[i] ELSE "0"])]

\* strconv.ParseUint(s, 10, 64): digits only (leading zeros accepted), no sign.
\* Every text of the model is shorter than 20 digits, so the range error of a
\* value above 2^64 - 1 cannot arise.
ParseUint(s) ==
    IF s = <<>> \/ (\E i \in 1..Len(s) : ~IsDigit(s[i]))
    THEN [ok |-> FALSE, val |-> 0]
    ELSE [ok |-> TRUE, val |-> DigitsValue(s)]

\* strconv.ParseInt(s, 10, 64): an optional sign, then digits
ParseInt(s) ==
    IF s # <<>> /\ s[1] \in {"+", "-"}
    THEN LET r == ParseUint(Tail(s))
         IN  [ok |-> r.ok, val |-> IF s[1] = "-" THEN 0 - r.val ELSE r.val]
    ELSE ParseUint(s)

(* ------------------------------ inputs --------------------------------- *)
\* texts a client may send as Uid header or uid query parameter, and the keys
\* the bucket listing may hold at startup
UidTexts ==
    {FormatUint(u) : u \in UIDs} \cup {<<"0", "1">>, <<"x">>, <<>>}
ObjectKeys == {FormatUint(u) : u \in UIDs} \cup {<<"x">>}
\* a header the request does not carry (no text of the model has this form)
NoHeader == <<"absent">>
UidHeaders == UidTexts \cup {NoHeader}
\* texts a client may send as File-Size header
SizeHeaders == {<<"0">>, <<"1">>, <<"3">>, <<"x">>, NoHeader}

RECURSIVE SeqsUpTo(_, _)
SeqsUpTo(S, n) ==
    IF n = 0 THEN {<<>>}
    ELSE LET shorter == SeqsUpTo(S, n - 1)
         IN  shorter \cup {Append(s, x) : s \in shorter, x \in S}

(* ------------------------------ state ---------------------------------- *)
VARIABLES
    uids,       \* UidTracker.uids: the keys of the map
    mu,         \* UidTracker.mu: 0 when free, else the goroutine holding it
    started,    \* main has reached http.ListenAndServe
    inits,      \* number of Init calls made so far
    lastInit,   \* argument of the latest Init call, kept until the server serves
    uids0,      \* the set when the server started serving
    pc,         \* per request: where its handler is
    req,        \* per request: its headers and parameters, parsed
    ctxDone,    \* per request: ctx.Done() of its GenerateAndAdd is closed
    ret,        \* per request: the outcome of its tracker call
    objectName, \* per request: result of getUniqueObjectName
    resp,       \* per request: what was written to the ResponseWriter
    handed      \* per UID: how often a tracker call returned it with a nil error

trackerVars == <<uids, mu, started, inits, lastInit, uids0>>
procVars == <<pc, req, ctxDone, ret, objectName, resp, handed>>

VARIABLES
    s1,         \* goroutine 1 (demultiplex): where it is
    s2,         \* goroutine 2 (encrypt): where it is
    s3,         \* goroutine 3 (store): where it is
    wg,         \* the WaitGroup counter
    plainPipe,  \* io.Pipe from goroutine 1 to goroutine 2
    cipherPipe, \* io.Pipe from goroutine 2 to goroutine 3
    parts,      \* parts NextPart has returned
    reads,      \* Read calls made on the current part
    firstPart,  \* goroutine 1's flag
    chunk,      \* fileChunk[:nbrReadBytes] while goroutine 1 sends the filename
    errEOF,     \* the error of the latest Read of the current part
    published,  \* the value goroutine 1 sends on filenameChannel
    sent,       \* sends on filenameChannel that completed
    recv,       \* receives from filenameChannel that completed
    metadata,   \* goroutine 3's metadata map, as a set of <<key, value>>
    putInvoked, \* PutObject was called
    putN,       \* bytes PutObject has read from ciphertextReader
    putErr,     \* PutObject returned an error
    iv,         \* the IV of EncryptStream
    pos         \* bytes EncryptStream has encrypted

pipeVars == <<s1, s2, s3, wg, plainPipe, cipherPipe, parts, reads, firstPart,
              chunk, errEOF, published, sent, recv, metadata, putInvoked,
              putN, putErr, iv, pos>>

VARIABLES
    plain,      \* the bytes goroutine 1 has read from the parts, in order
    stored,     \* the bytes PutObject has read from ciphertextReader, in order
    putKey      \* the object name PutObject was called with

flowVars == <<plain, stored, putKey>>

VARIABLES
    object,     \* what the bucket holds under the name a fetch asks for
    minioCalls, \* per request: the storage calls its fetch has made
    header,     \* per request: the response headers its fetch has set
    body,       \* per request: the bytes its fetch has written to the response
    div,        \* the IV DecryptStream has read
    dpos,       \* bytes DecryptStream has decrypted
    unread,     \* the bytes of the object not yet read
    derr        \* the result of DecryptStream: "none" while it has not returned

fetchVars == <<object, minioCalls, header, body, div, dpos, unread, derr>>

VARIABLES
    dstep,      \* where the deadline computation of a request is
    dsize,      \* fileSize, as ParseInt has returned it
    dtimeout    \* what getMaxNbrRunSeconds has returned, in seconds

deadlineVars == <<dstep, dsize, dtimeout>>

vars == <<trackerVars, procVars, pipeVars, flowVars, fetchVars, deadlineVars>>

\* no object under the name
NoObject == [present |-> FALSE, data |-> <<>>, meta |-> {}]

\* an io.Pipe: the slice a blocked Write offers, and how the write end was closed
NewPipe == [offered |-> FALSE, data |-> <<>>, done |-> "open"]

NoReq == [kind |-> "none", uid |-> 0, text |-> <<>>, fileSize |-> 0, size |-> <<>>]
NoRet == [op |-> "none", arg |-> 0, val |-> 0, err |-> "nil", rec |-> 0]

\* the state after construction, all requests still to arrive
Init ==
    /\ uids = {}
    /\ mu = 0
    /\ started = FALSE
    /\ inits = 0
    /\ lastInit = <<>>
    /\ uids0 = {}
    /\ pc = [p \in Procs |-> "idle"]
    /\ req = [p \in Procs |-> NoReq]
    /\ ctxDone = [p \in Procs |-> FALSE]
    /\ ret = [p \in Procs |-> NoRet]
    /\ objectName = [p \in Procs |-> <<>>]
    /\ resp = [p \in Procs |-> <<>>]
    /\ handed = [u \in UIDs |-> 0]
    /\ s1 = "off"
    /\ s2 = "off"
    /\ s3 = "off"
    /\ wg = 0
    /\ plainPipe = NewPipe
    /\ cipherPipe = NewPipe
    /\ parts = 0
    /\ reads = 0
    /\ firstPart = TRUE
    /\ chunk = <<>>
    /\ errEOF = "nil"
    /\ published = <<>>
    /\ sent = 0
    /\ recv = 0
    /\ metadata = {}
    /\ putInvoked = FALSE
    /\ putN = 0
    /\ putErr = FALSE
    /\ iv = <<>>
    /\ pos = 0
    /\ plain = <<>>
    /\ stored = <<>>
    /\ putKey = <<>>
    /\ object = NoObject
    /\ minioCalls = [p \in Procs |-> {}]
    /\ header = [p \in Procs |-> {}]
    /\ body = [p \in Procs |-> <<>>]
    /\ div = <<>>
    /\ dpos = 0
    /\ unread = <<>>
    /\ derr = "none"
    /\ dstep = "idle"
    /\ dsize = 0
    /\ dtimeout = 0

(* --------------------------- package uid ------------------------------- *)
\* (mutant) the mutex is never taken: Lock returns at once
CanLock_NoMutex == TRUE

\* sync.Mutex.Lock returns only while no goroutine holds the mutex
CanLock == mu = 0

\* (mutant) Contains finds every UID
Contains_Always(elem) == TRUE

\* UidTracker.Contains: the map lookup
Contains(elem) == elem \in uids

RECURSIVE AddAll(_, _)
AddAll(m, elems) ==
    IF elems = <<>> THEN m ELSE AddAll(m \cup {Head(elems)}, Tail(elems))

\* (mutant) Init keeps the old map instead of making a fresh one
TrackerInit_KeepOld(initialElems) == AddAll(uids, initialElems)

\* UidTracker.Init: a fresh map, then one entry per element of the array
TrackerInit(initialElems) == AddAll({}, initialElems)

\* (mutant) AddUid recommends its first draw without looking it up
Recommendable_Unchecked(recommended) == TRUE

\* AddUid: a draw is recommended only if the map has no entry for it
Recommendable(recommended) == ~Contains(recommended)

\* fetchUidsFromMinio: the listed keys that parse as uint64, in listing order
RECURSIVE ParsedUids(_)
ParsedUids(keys) ==
    IF keys = <<>> THEN <<>>
    ELSE LET r == ParseUint(Head(keys))
         IN  (IF r.ok THEN <<r.val>> ELSE <<>>) \o ParsedUids(Tail(keys))

Answer(code, uid) == [code |-> code, uid |-> uid]

\* the handler writes its answer and returns
Finish(p, answer) ==
    /\ pc' = [pc EXCEPT ![p] = "done"]
    /\ resp' = [resp EXCEPT ![p] = Append(@, answer)]

\* a handler that answers before it makes any call
Reject(p, answer) ==
    /\ Finish(p, answer)
    /\ UNCHANGED <<req, ctxDone>>

\* an upload that is answered before it makes any call; the headers it
\* carried are kept
Refuse(p, answer, size, hdr) ==
    /\ Finish(p, answer)
    /\ req' = [req EXCEPT ![p] = [kind |-> "upload", uid |-> 0, text |-> hdr,
                                  fileSize |-> 0, size |-> size]]
    /\ UNCHANGED ctxDone

\* a handler that goes on to a tracker call
Proceed(p, to, request) ==
    /\ pc' = [pc EXCEPT ![p] = to]
    /\ req' = [req EXCEPT ![p] = request]
    /\ UNCHANGED <<resp, ctxDone>>

\* main: fetchUidsFromMinio lists the bucket and calls tracker.Init
MainFetchUids ==
    /\ ~started
    /\ inits < MaxInits
    /\ CanLock
    /\ \E keys \in SeqsUpTo(ObjectKeys, MaxInitLen) :
          /\ uids' = TrackerInit(ParsedUids(keys))
          /\ lastInit' = ParsedUids(keys)
    /\ inits' = inits + 1
    /\ UNCHANGED <<mu, started, uids0, procVars>>
    /\ UNCHANGED <<pipeVars, flowVars, fetchVars, deadlineVars>>

\* main: http.ListenAndServe
MainServe ==
    /\ ~started
    /\ inits > 0
    /\ started' = TRUE
    /\ uids0' = uids
    /\ lastInit' = <<>>
    /\ UNCHANGED <<uids, mu, inits, procVars>>
    /\ UNCHANGED <<pipeVars, flowVars, fetchVars, deadlineVars>>

\* uploadHandler up to the tracker call of getUniqueObjectName
UploadBegin(p) ==
    /\ started
    /\ pc[p] = "idle"
    /\ \E size \in SizeHeaders, hdr \in UidHeaders :
          IF size = NoHeader
          THEN \* r.Header["File-Size"][0] on a missing header: index out of
               \* range, the handler panics and nothing is written (code 0)
               Refuse(p, Answer(0, 0), size, hdr)
          ELSE IF ~ParseInt(size).ok
          THEN Refuse(p, Answer(412, 0), size, hdr)
          ELSE IF hdr = NoHeader
          THEN Proceed(p, "GenerateAndAdd",
                       [kind |-> "upload", uid |-> 0, text |-> hdr,
                        fileSize |-> ParseInt(size).val, size |-> size])
          ELSE IF ~ParseUint(hdr).ok
          THEN Refuse(p, Answer(412, 0), size, hdr)
          ELSE Proceed(p, "AddUid",
                       [kind |-> "upload", uid |-> ParseUint(hdr).val,
                        text |-> hdr, fileSize |-> ParseInt(size).val,
                        size |-> size])
    /\ UNCHANGED <<trackerVars, ret, objectName, handed>>
    /\ UNCHANGED <<pipeVars, flowVars, fetchVars, deadlineVars>>

\* AddUid: t.mu.Lock() and the lookup of the candidate
AddUidCheck(p) ==
    /\ pc[p] = "AddUid"
    /\ CanLock
    /\ mu' = p
    /\ pc' = [pc EXCEPT ![p] =
                 IF Contains(req[p].uid) THEN "AddUid_recommend" ELSE "AddUid_add"]
    /\ UNCHANGED <<uids, started, inits, lastInit, uids0, req, ctxDone, ret,
                   objectName, resp, handed>>
    /\ UNCHANGED <<pipeVars, flowVars, fetchVars, deadlineVars>>

\* AddUid: one turn of the loop that draws a recommendation; a draw that is
\* in use is thrown away, a free one ends the call with the conflict error,
\* which getUniqueObjectName answers with 409
AddUidRecommend(p) ==
    /\ pc[p] = "AddUid_recommend"
    /\ \E recommended \in UIDs :
          /\ Recommendable(recommended)
          /\ ret' = [ret EXCEPT ![p] =
                        [op |-> "AddUid", arg |-> req[p].uid, val |-> 0,
                         err |-> "conflict", rec |-> recommended]]
          /\ Finish(p, Answer(409, recommended))
    /\ mu' = 0
    /\ UNCHANGED <<uids, started, inits, lastInit, uids0, req, ctxDone,
                   objectName, handed>>
    /\ UNCHANGED <<pipeVars, flowVars, fetchVars, deadlineVars>>

\* (mutant) AddUid reserves and returns the value after the candidate
AddUidAdd_Successor(p) ==
    /\ pc[p] = "AddUid_add"
    /\ uids' = uids \cup {(req[p].uid + 1) % (MaxUid + 1)}
    /\ mu' = 0
    /\ ret' = [ret EXCEPT ![p] =
                  [op |-> "AddUid", arg |-> req[p].uid,
                   val |-> (req[p].uid + 1) % (MaxUid + 1),
                   err |-> "nil", rec |-> 0]]
    /\ handed' = [handed EXCEPT ![(req[p].uid + 1) % (MaxUid + 1)] = @ + 1]
    /\ objectName' = [objectName EXCEPT ![p] =
                         FormatUint((req[p].uid + 1) % (MaxUid + 1))]
    /\ pc' = [pc EXCEPT ![p] = "pipeline"]
    /\ UNCHANGED <<started, inits, lastInit, uids0, req, ctxDone, resp>>
    /\ UNCHANGED <<pipeVars, flowVars, fetchVars, deadlineVars>>

\* AddUid: the candidate is free: add it and return it;
\* getUniqueObjectName formats it as the object name
AddUidAdd(p) ==
    /\ pc[p] = "AddUid_add"
    /\ uids' = uids \cup {req[p].uid}
    /\ mu' = 0
    /\ ret' = [ret EXCEPT ![p] =
                  [op |-> "AddUid", arg |-> req[p].uid, val |-> req[p].uid,
                   err |-> "nil", rec |-> 0]]
    /\ handed' = [handed EXCEPT ![req[p].uid] = @ + 1]
    /\ objectName' = [objectName EXCEPT ![p] = FormatUint(req[p].uid)]
    /\ pc' = [pc EXCEPT ![p] = "pipeline"]
    /\ UNCHANGED <<started, inits, lastInit, uids0, req, ctxDone, resp>>
    /\ UNCHANGED <<pipeVars, flowVars, fetchVars, deadlineVars>>

\* the 15 ms deadline of the context made by getUniqueObjectName passes while
\* GenerateAndAdd waits for the mutex
GenerateExpire(p) ==
    /\ pc[p] = "GenerateAndAdd"
    /\ ~ctxDone[p]
    /\ ctxDone' = [ctxDone EXCEPT ![p] = TRUE]
    /\ UNCHANGED <<trackerVars, pc, req, ret, objectName, resp, handed>>
    /\ UNCHANGED <<pipeVars, flowVars, fetchVars, deadlineVars>>

\* (mutant) GenerateAndAdd draws first and looks at the context only when the
\* draw is in use
GenerateOutcome_DrawFirst(done, try) ==
    IF ~Contains(try) THEN <<try, "nil", uids \cup {try}>>
    ELSE IF done THEN <<0, "timeout", uids>>
    ELSE <<0, "nil", uids>>

\* what GenerateAndAdd returns and the map it leaves, for a context state and
\* a draw: <<value, error, map>>
GenerateOutcome(done, try) ==
    IF done THEN <<0, "timeout", uids>>
    ELSE IF ~Contains(try) THEN <<try, "nil", uids \cup {try}>>
    ELSE <<0, "nil", uids>>

\* GenerateAndAdd under the mutex, and getUniqueObjectName's use of the result
GenerateAndAdd(p) ==
    /\ pc[p] = "GenerateAndAdd"
    /\ CanLock
    /\ \E try \in UIDs :
          LET out == GenerateOutcome(ctxDone[p], try)
          IN  /\ uids' = out[3]
              /\ ret' = [ret EXCEPT ![p] =
                            [op |-> "GenerateAndAdd", arg |-> try, val |-> out[1],
                             err |-> out[2], rec |-> 0]]
              /\ IF out[2] = "nil"
                 THEN /\ handed' = [handed EXCEPT ![out[1]] = @ + 1]
                      /\ objectName' = [objectName EXCEPT ![p] = FormatUint(out[1])]
                      /\ pc' = [pc EXCEPT ![p] = "pipeline"]
                      /\ UNCHANGED resp
                 ELSE /\ Finish(p, Answer(500, 0))
                      /\ UNCHANGED <<handed, objectName>>
    /\ UNCHANGED <<mu, started, inits, lastInit, uids0, req, ctxDone>>
    /\ UNCHANGED <<pipeVars, flowVars, fetchVars, deadlineVars>>

\* fetchAndDecryptHandler up to the tracker call
FetchBegin(p) ==
    /\ started
    /\ pc[p] = "idle"
    /\ \E uidStr \in UidTexts :
          IF uidStr = <<>> \/ ~ParseUint(uidStr).ok
          THEN Reject(p, Answer(400, 0))
          ELSE Proceed(p, "Contains",
                       [kind |-> "fetch", uid |-> ParseUint(uidStr).val,
                        text |-> uidStr, fileSize |-> 0, size |-> <<>>])
    /\ UNCHANGED <<trackerVars, ret, objectName, handed>>
    /\ UNCHANGED <<pipeVars, flowVars, fetchVars, deadlineVars>>

\* Contains under the mutex, and the handler's 404 for an unknown uid
FetchContains(p) ==
    /\ pc[p] = "Contains"
    /\ CanLock
    /\ ret' = [ret EXCEPT ![p] =
                  [op |-> "Contains", arg |-> req[p].uid, val |-> 0,
                   err |-> IF Contains(req[p].uid) THEN "true" ELSE "false",
                   rec |-> 0]]
    /\ IF Contains(req[p].uid)
       THEN /\ pc' = [pc EXCEPT ![p] = "fetch"]
            /\ objectName' = [objectName EXCEPT ![p] = req[p].text]
            /\ UNCHANGED resp
       ELSE /\ Finish(p, Answer(404, 0))
            /\ UNCHANGED objectName
    /\ UNCHANGED <<trackerVars, req, ctxDone, handed>>
    /\ UNCHANGED <<pipeVars, flowVars, fetchVars, deadlineVars>>

\* the requests as far as the tracker is concerned
TrackerNext ==
    \/ MainFetchUids
    \/ MainServe
    \/ \E p \in Procs : UploadBegin(p)
    \/ \E p \in Procs : AddUidCheck(p)
    \/ \E p \in Procs : AddUidRecommend(p)
    \/ \E p \in Procs : AddUidAdd(p)
    \/ \E p \in Procs : GenerateExpire(p)
    \/ \E p \in Procs : GenerateAndAdd(p)
    \/ \E p \in Procs : FetchBegin(p)
    \/ \E p \in Procs : FetchContains(p)

Spec == Init /\ [][TrackerNext]_vars

\* every goroutine that is inside a tracker call and can take its next step
\* takes it; a draw of the recommendation loop that can be free eventually is
TrackerFairness ==
    \A p \in Procs :
       /\ WF_vars(AddUidCheck(p))
       /\ WF_vars(AddUidRecommend(p))
       /\ WF_vars(AddUidAdd(p))
       /\ WF_vars(GenerateAndAdd(p))
       /\ WF_vars(FetchContains(p))

LiveTracker == Init /\ [][TrackerNext]_vars /\ TrackerFairness

(* ------------------------ the upload pipeline -------------------------- *)
Min(a, b) == IF a < b THEN a ELSE b

\* the values one Read of a part can leave in fileChunk[:nbrReadBytes]
Chunks == SeqsUpTo(Bytes, MaxChunkLen)

\* the IVs crypto/rand can deliver
IVs == {[i \in 1..BlockSize |-> b] : b \in Bytes}

\* byte i (from 0) of the CTR keystream of the key under an IV
Keystream(v, i) == (v[1] + i) % 2

\* (mutant) the keystream starts anew with every slice
XorKeyStream_Restart(v, at, src) ==
    [i \in 1..Len(src) |-> (src[i] + Keystream(v, i - 1)) % 2]

\* cipher.StreamWriter: XORKeyStream of a slice that starts at stream offset at
XorKeyStream(v, at, src) ==
    [i \in 1..Len(src) |-> (src[i] + Keystream(v, at + i - 1)) % 2]

\* everything EncryptStream writes for a source that ends after src: the IV,
\* then the source under the keystream from offset 0
EncryptStream(v, src) == v \o XorKeyStream(v, 0, src)

\* file names a part's Content-Disposition can carry
FileNames == {<<>>, <<"d", "/", "a">>}

\* mime.ParseMediaType of the first part's Content-Disposition: it fails, or
\* gives the parameters, of which only filename is read (absent reads as "")
ContentDispositions ==
    {[ok |-> FALSE, filename |-> <<>>]} \cup
    {[ok |-> TRUE, filename |-> f] : f \in FileNames}

\* what goroutine 1 sends on filenameChannel for a Content-Disposition
FilenameOf(cd) == IF cd.ok THEN cd.filename ELSE <<>>

RECURSIVE StripSlashes(_)
StripSlashes(path) ==
    IF path # <<>> /\ path[Len(path)] = "/"
    THEN StripSlashes(SubSeq(path, 1, Len(path) - 1))
    ELSE path

LastElement(path) ==
    IF \E i \in 1..Len(path) : path[i] = "/"
    THEN LET last == CHOOSE i \in 1..Len(path) :
                        /\ path[i] = "/"
                        /\ \A j \in (i + 1)..Len(path) : path[j] # "/"
         IN  SubSeq(path, last + 1, Len(path))
    ELSE path

\* filepath.Base
Base(path) ==
    IF path = <<>> THEN <<".">>
    ELSE IF StripSlashes(path) = <<>> THEN <<"/">>
    ELSE LastElement(StripSlashes(path))

\* (mutant) goroutine 3 stores the Filename entry whatever it received
Metadata_Always(name) == {<<"Filename", Base(name)>>}

\* goroutine 3's metadata map for the filename it received
Metadata(name) == IF name # <<>> THEN {<<"Filename", Base(name)>>} ELSE {}

\* minioDataSize of the request
MinioDataSize(p) == req[p].fileSize + BlockSize

\* http.Error called by one of the goroutines of request p
HttpError(p, code) == resp' = [resp EXCEPT ![p] = Append(@, Answer(code, 0))]

\* uploadHandler: the pipes, the WaitGroup, the channel and the three go statements
UploadStart(p) ==
    /\ pc[p] = "pipeline"
    /\ UNCHANGED <<flowVars, fetchVars, deadlineVars>>
    /\ pc' = [pc EXCEPT ![p] = "Wait"]
    /\ wg' = 3
    /\ s1' = "MultipartReader"
    /\ s2' = "EncryptStream"
    /\ s3' = "Recv"
    /\ plainPipe' = NewPipe
    /\ cipherPipe' = NewPipe
    /\ firstPart' = TRUE
    /\ UNCHANGED <<trackerVars, req, ctxDone, ret, objectName, resp, handed,
                   parts, reads, chunk, errEOF, published, sent, recv, metadata,
                   putInvoked, putN, putErr, iv, pos>>

\* goroutine 1 returns: uploadedDataWriter.Close() and wg.Done() run deferred
S1Return ==
    /\ s1' = "done"
    /\ plainPipe' = [plainPipe EXCEPT !.done = "EOF"]
    /\ wg' = wg - 1

\* goroutine 1: r.MultipartReader()
S1MultipartReader(p) ==
    /\ pc[p] = "Wait"
    /\ UNCHANGED <<flowVars, fetchVars, deadlineVars>>
    /\ s1 = "MultipartReader"
    /\ \E ok \in BOOLEAN :
          IF ok
          THEN /\ s1' = "NextPart"
               /\ UNCHANGED <<plainPipe, wg, resp>>
          ELSE /\ HttpError(p, 400)
               /\ S1Return
    /\ UNCHANGED <<trackerVars, pc, req, ctxDone, ret, objectName, handed,
                   s2, s3, cipherPipe, parts, reads, firstPart, chunk, errEOF,
                   published, sent, recv, metadata, putInvoked, putN, putErr,
                   iv, pos>>

\* goroutine 1: fileStream.NextPart()
S1NextPart(p) ==
    /\ pc[p] = "Wait"
    /\ UNCHANGED <<flowVars, fetchVars, deadlineVars>>
    /\ s1 = "NextPart"
    /\ \E next \in {"part", "EOF", "err"} :
          CASE next = "part" ->
                  /\ parts < MaxParts
                  /\ parts' = parts + 1
                  /\ reads' = 0
                  /\ s1' = "Read"
                  /\ UNCHANGED <<plainPipe, wg, resp>>
            [] next = "EOF" ->
                  /\ S1Return
                  /\ UNCHANGED <<parts, reads, resp>>
            [] next = "err" ->
                  /\ HttpError(p, 422)
                  /\ S1Return
                  /\ UNCHANGED <<parts, reads>>
    /\ UNCHANGED <<trackerVars, pc, req, ctxDone, ret, objectName, handed,
                   s2, s3, cipherPipe, firstPart, chunk, errEOF, published,
                   sent, recv, metadata, putInvoked, putN, putErr, iv, pos>>

\* what a Read of the current part may return: a part that has failed keeps
\* failing (multipart's reader is sticky), and a part has finitely many bytes
ReadResults ==
    IF errEOF = "err" THEN {<<(<<>>), "err">>}
    ELSE {<<data, e>> : data \in Chunks,
                        e \in IF reads < MaxReads THEN {"nil", "EOF", "err"}
                              ELSE {"EOF", "err"}}

\* (mutant) the Write to the plaintext pipe returns before anything is read
S1Read_NoBlock(p) ==
    /\ pc[p] = "Wait"
    /\ UNCHANGED <<stored, putKey, fetchVars, deadlineVars>>
    /\ s1 = "Read"
    /\ \E r \in ReadResults :
          /\ errEOF' = r[2]
          /\ plain' = plain \o r[1]
          /\ reads' = IF r[2] = "nil" THEN reads + 1 ELSE reads
          /\ IF firstPart
             THEN /\ \E cd \in ContentDispositions : published' = FilenameOf(cd)
                  /\ chunk' = r[1]
                  /\ s1' = "Send"
                  /\ UNCHANGED plainPipe
             ELSE /\ plainPipe' = [plainPipe EXCEPT !.offered = TRUE, !.data = r[1]]
                  /\ s1' = "Read"
                  /\ UNCHANGED <<chunk, published>>
    /\ UNCHANGED <<trackerVars, procVars, s2, s3, wg, cipherPipe, parts,
                   firstPart, sent, recv, metadata, putInvoked, putN, putErr,
                   iv, pos>>

\* goroutine 1: nextPart.Read(fileChunk); on the first part it then parses the
\* Content-Disposition and blocks sending the filename, else it goes on to
\* sendToEncryption, whose Write blocks on the plaintext pipe
S1Read(p) ==
    /\ pc[p] = "Wait"
    /\ UNCHANGED <<stored, putKey, fetchVars, deadlineVars>>
    /\ s1 = "Read"
    /\ \E r \in ReadResults :
          /\ errEOF' = r[2]
          /\ plain' = plain \o r[1]
          /\ reads' = IF r[2] = "nil" THEN reads + 1 ELSE reads
          /\ IF firstPart
             THEN /\ \E cd \in ContentDispositions : published' = FilenameOf(cd)
                  /\ chunk' = r[1]
                  /\ s1' = "Send"
                  /\ UNCHANGED plainPipe
             ELSE /\ plainPipe' = [plainPipe EXCEPT !.offered = TRUE, !.data = r[1]]
                  /\ s1' = "Write"
                  /\ UNCHANGED <<chunk, published>>
    /\ UNCHANGED <<trackerVars, procVars, s2, s3, wg, cipherPipe, parts,
                   firstPart, sent, recv, metadata, putInvoked, putN, putErr,
                   iv, pos>>

\* the rendezvous on filenameChannel: goroutine 1's send meets goroutine 3's
\* receive. Goroutine 3 builds the metadata and calls PutObject; goroutine 1
\* clears firstPart and goes on to sendToEncryption
FilenameHandoff(p) ==
    /\ pc[p] = "Wait"
    /\ putKey' = objectName[p]
    /\ UNCHANGED <<plain, stored, fetchVars, deadlineVars>>
    /\ s1 = "Send"
    /\ s3 = "Recv"
    /\ sent' = sent + 1
    /\ recv' = recv + 1
    /\ metadata' = Metadata(published)
    /\ putInvoked' = TRUE
    /\ s3' = "Put"
    /\ firstPart' = FALSE
    /\ plainPipe' = [plainPipe EXCEPT !.offered = TRUE, !.data = chunk]
    /\ chunk' = <<>>
    /\ s1' = "Write"
    /\ UNCHANGED <<trackerVars, procVars, s2, wg, cipherPipe, parts, reads,
                   errEOF, published, putN, putErr, iv, pos>>

\* goroutine 2: EncryptStream draws the IV and starts writing it to the
\* ciphertext pipe; if the IV cannot be drawn it returns the error, and the
\* goroutine closes the pipe with it and answers 500
S2Start(p) ==
    /\ pc[p] = "Wait"
    /\ UNCHANGED <<flowVars, fetchVars, deadlineVars>>
    /\ s2 = "EncryptStream"
    /\ \/ \E v \in IVs :
             /\ iv' = v
             /\ cipherPipe' = [cipherPipe EXCEPT !.offered = TRUE, !.data = v]
             /\ s2' = "WriteIV"
             /\ UNCHANGED <<wg, resp>>
       \/ /\ cipherPipe' = [cipherPipe EXCEPT !.done = "err"]
          /\ HttpError(p, 500)
          /\ s2' = "done"
          /\ wg' = wg - 1
          /\ UNCHANGED iv
    /\ UNCHANGED <<trackerVars, pc, req, ctxDone, ret, objectName, handed,
                   s1, s3, plainPipe, parts, reads, firstPart, chunk, errEOF,
                   published, sent, recv, metadata, putInvoked, putN, putErr,
                   pos>>

\* goroutine 2: one Read of io.Copy takes up to CopyBufLen bytes of the slice
\* goroutine 1 offers; when the slice is used up the Write of goroutine 1
\* returns, and goroutine 1 leaves the part on io.EOF. Bytes read are
\* encrypted and offered to the ciphertext pipe; a Read of no bytes is
\* followed by the next Read
S2Read(p) ==
    /\ pc[p] = "Wait"
    /\ UNCHANGED <<flowVars, fetchVars, deadlineVars>>
    /\ s2 = "Copy"
    /\ plainPipe.offered
    /\ LET n == Min(Len(plainPipe.data), CopyBufLen)
           taken == SubSeq(plainPipe.data, 1, n)
           rest == SubSeq(plainPipe.data, n + 1, Len(plainPipe.data))
       IN  /\ IF rest = <<>>
              THEN /\ plainPipe' = [plainPipe EXCEPT !.offered = FALSE, !.data = <<>>]
                   /\ s1' = IF errEOF = "EOF" THEN "NextPart" ELSE "Read"
                   /\ errEOF' = IF errEOF = "EOF" THEN "nil" ELSE errEOF
              ELSE /\ plainPipe' = [plainPipe EXCEPT !.data = rest]
                   /\ UNCHANGED <<s1, errEOF>>
           /\ IF n = 0
              THEN UNCHANGED <<s2, cipherPipe, pos>>
              ELSE /\ cipherPipe' = [cipherPipe EXCEPT !.offered = TRUE,
                                        !.data = XorKeyStream(iv, pos, taken)]
                   /\ pos' = pos + n
                   /\ s2' = "Write"
    /\ UNCHANGED <<trackerVars, procVars, s3, wg, parts, reads, firstPart,
                   chunk, published, sent, recv, metadata, putInvoked, putN,
                   putErr, iv>>

\* goroutine 2: io.Copy reads io.EOF from the closed plaintext pipe,
\* EncryptStream returns nil, ciphertextWriter.Close() and wg.Done() run deferred
S2EOF(p) ==
    /\ pc[p] = "Wait"
    /\ UNCHANGED <<flowVars, fetchVars, deadlineVars>>
    /\ s2 = "Copy"
    /\ ~plainPipe.offered
    /\ plainPipe.done = "EOF"
    /\ cipherPipe' = [cipherPipe EXCEPT !.done = "EOF"]
    /\ s2' = "done"
    /\ wg' = wg - 1
    /\ UNCHANGED <<trackerVars, procVars, s1, s3, plainPipe, parts, reads,
                   firstPart, chunk, errEOF, published, sent, recv, metadata,
                   putInvoked, putN, putErr, iv, pos>>

\* PutObject reads from ciphertextReader. Up to the declared size it takes
\* what is missing; bytes beyond the declared size are left unread by the
\* multipart path and read and discarded by the HTTP transport of the
\* single-request path, so either may happen. When the offered slice is used
\* up the Write of goroutine 2 returns
PutRead(p) ==
    /\ pc[p] = "Wait"
    /\ UNCHANGED <<plain, putKey, fetchVars, deadlineVars>>
    /\ s3 = "Put"
    /\ cipherPipe.offered
    /\ \E n \in {Min(Len(cipherPipe.data), MinioDataSize(p) - putN),
                  Len(cipherPipe.data)} :
          /\ n > 0
          /\ putN' = putN + n
          /\ stored' = stored \o SubSeq(cipherPipe.data, 1, n)
          /\ LET rest == SubSeq(cipherPipe.data, n + 1, Len(cipherPipe.data))
             IN  IF rest = <<>>
                 THEN /\ cipherPipe' = [cipherPipe EXCEPT !.offered = FALSE, !.data = <<>>]
                      /\ s2' = "Copy"
                 ELSE /\ cipherPipe' = [cipherPipe EXCEPT !.data = rest]
                      /\ UNCHANGED s2
    /\ UNCHANGED <<trackerVars, procVars, s1, s3, wg, plainPipe, parts, reads,
                   firstPart, chunk, errEOF, published, sent, recv, metadata,
                   putInvoked, putErr, iv, pos>>

\* (mutant) goroutine 3 gives the UID back when PutObject has failed
S3Return_Release(p, failed) ==
    /\ putErr' = failed
    /\ uids' = IF failed THEN uids \ {DigitsValue(objectName[p])} ELSE uids
    /\ UNCHANGED <<flowVars, fetchVars, deadlineVars>>
    /\ IF failed THEN HttpError(p, 500) ELSE UNCHANGED resp
    /\ s3' = "done"
    /\ wg' = wg - 1
    /\ UNCHANGED <<mu, started, inits, lastInit, uids0, pc, req, ctxDone, ret,
                   objectName, handed, s1, s2, plainPipe, cipherPipe, parts,
                   reads, firstPart, chunk, errEOF, published, sent, recv,
                   metadata, putInvoked, putN, iv, pos>>

\* goroutine 3 after PutObject has returned: 500 on an error, then wg.Done()
S3Return(p, failed) ==
    /\ putErr' = failed
    /\ UNCHANGED <<flowVars, fetchVars, deadlineVars>>
    /\ IF failed THEN HttpError(p, 500) ELSE UNCHANGED resp
    /\ s3' = "done"
    /\ wg' = wg - 1
    /\ UNCHANGED <<trackerVars, pc, req, ctxDone, ret, objectName, handed,
                   s1, s2, plainPipe, cipherPipe, parts, reads, firstPart,
                   chunk, errEOF, published, sent, recv, metadata, putInvoked,
                   putN, iv, pos>>

\* PutObject comes to its end: it has read the declared number of bytes and
\* the object is stored, or the stream ended short of it (io.EOF, or the
\* error the pipe was closed with) and the write fails
PutReturn(p) ==
    /\ pc[p] = "Wait"
    /\ s3 = "Put"
    /\ \/ putN = MinioDataSize(p)
       \/ ~cipherPipe.offered /\ cipherPipe.done # "open"
    /\ S3Return(p, putN # MinioDataSize(p))

\* PutObject fails: the deadline of timeoutCtx passes or the backend refuses
PutFail(p) ==
    /\ pc[p] = "Wait"
    /\ s3 = "Put"
    /\ S3Return(p, TRUE)

\* (mutant) the handler does not wait for the WaitGroup
UploadJoin_NoWait(p) ==
    /\ pc[p] = "Wait"
    /\ Finish(p, Answer(200, DigitsValue(objectName[p])))
    /\ UNCHANGED <<trackerVars, req, ctxDone, ret, objectName, handed, pipeVars,
                   flowVars, fetchVars, deadlineVars>>

\* uploadHandler: wg.Wait() returns, the success line is written
UploadJoin(p) ==
    /\ pc[p] = "Wait"
    /\ wg = 0
    /\ Finish(p, Answer(200, DigitsValue(objectName[p])))
    /\ UNCHANGED <<trackerVars, req, ctxDone, ret, objectName, handed, pipeVars,
                   flowVars, fetchVars, deadlineVars>>

Stage1(p) == S1MultipartReader(p) \/ S1NextPart(p) \/ S1Read(p)
Stage2(p) == S2Start(p) \/ S2Read(p) \/ S2EOF(p)
Stage3(p) == PutRead(p) \/ PutReturn(p) \/ PutFail(p)

PipelineNext ==
    \/ \E p \in Procs : UploadStart(p)
    \/ \E p \in Procs : S1MultipartReader(p)
    \/ \E p \in Procs : S1NextPart(p)
    \/ \E p \in Procs : S1Read(p)
    \/ \E p \in Procs : FilenameHandoff(p)
    \/ \E p \in Procs : S2Start(p)
    \/ \E p \in Procs : S2Read(p)
    \/ \E p \in Procs : S2EOF(p)
    \/ \E p \in Procs : PutRead(p)
    \/ \E p \in Procs : PutReturn(p)
    \/ \E p \in Procs : PutFail(p)
    \/ \E p \in Procs : UploadJoin(p)

\* one upload request from its arrival to the handler's return
UploadNext ==
    \/ \E p \in Procs : UploadBegin(p)
    \/ \E p \in Procs : AddUidCheck(p)
    \/ \E p \in Procs : AddUidRecommend(p)
    \/ \E p \in Procs : AddUidAdd(p)
    \/ \E p \in Procs : GenerateExpire(p)
    \/ \E p \in Procs : GenerateAndAdd(p)
    \/ PipelineNext

\* the server is serving, the bucket held the one object "0" when it started,
\* and one request is still to arrive
InitUpload ==
    /\ uids = TrackerInit(ParsedUids(<<FormatUint(0)>>))
    /\ mu = 0
    /\ started = TRUE
    /\ inits = 1
    /\ lastInit = <<>>
    /\ uids0 = uids
    /\ pc = [p \in Procs |-> IF p = 1 THEN "idle" ELSE "done"]
    /\ req = [p \in Procs |-> NoReq]
    /\ ctxDone = [p \in Procs |-> FALSE]
    /\ ret = [p \in Procs |-> NoRet]
    /\ objectName = [p \in Procs |-> <<>>]
    /\ resp = [p \in Procs |-> <<>>]
    /\ handed = [u \in UIDs |-> 0]
    /\ s1 = "off"
    /\ s2 = "off"
    /\ s3 = "off"
    /\ wg = 0
    /\ plainPipe = NewPipe
    /\ cipherPipe = NewPipe
    /\ parts = 0
    /\ reads = 0
    /\ firstPart = TRUE
    /\ chunk = <<>>
    /\ errEOF = "nil"
    /\ published = <<>>
    /\ sent = 0
    /\ recv = 0
    /\ metadata = {}
    /\ putInvoked = FALSE
    /\ putN = 0
    /\ putErr = FALSE
    /\ iv = <<>>
    /\ pos = 0
    /\ plain = <<>>
    /\ stored = <<>>
    /\ putKey = <<>>
    /\ object = NoObject
    /\ minioCalls = [p \in Procs |-> {}]
    /\ header = [p \in Procs |-> {}]
    /\ body = [p \in Procs |-> <<>>]
    /\ div = <<>>
    /\ dpos = 0
    /\ unread = <<>>
    /\ derr = "none"
    /\ dstep = "idle"
    /\ dsize = 0
    /\ dtimeout = 0

SpecUpload == InitUpload /\ [][UploadNext]_vars

\* the Go scheduler runs every goroutine that can take a step; PutObject
\* comes back at the latest when the deadline of its context passes
Fairness ==
    \A p \in Procs :
       /\ WF_vars(UploadStart(p))
       /\ WF_vars(Stage1(p))
       /\ WF_vars(FilenameHandoff(p))
       /\ WF_vars(Stage2(p))
       /\ WF_vars(Stage3(p))
       /\ WF_vars(UploadJoin(p))

LiveUpload == InitUpload /\ [][UploadNext]_vars /\ Fairness

(* ------------------------------ the fetch ------------------------------ *)
\* plaintexts of the objects the bucket may hold
PlainTexts == SeqsUpTo(Bytes, MaxChunkLen)

\* the object a successful upload of src leaves in the bucket: the output of
\* EncryptStream as body, goroutine 3's map as user metadata
UploadedObject(v, src, name) ==
    [present |-> TRUE, data |-> EncryptStream(v, src), meta |-> Metadata(name)]

UploadedObjects ==
    {UploadedObject(v, src, name) : v \in IVs, src \in PlainTexts, name \in FileNames}

\* objects that are shorter than an IV (written by something else, or cut off)
ShortObjects ==
    {[present |-> TRUE, data |-> d, meta |-> Metadata(<<"d", "/", "a">>)] :
        d \in {<<>>, <<1>>, [i \in 1..(BlockSize - 1) |-> 0]}}

\* what the bucket may hold under the name of a fetch; nothing, when the
\* upload that reserved the UID has failed or the name is not the stored key
BucketObjects == UploadedObjects \cup ShortObjects \cup {NoObject}

\* the bytes of a text, cut down to one bit each
TextBytes(text) ==
    [i \in 1..Len(text) |-> IF IsDigit(text[i]) THEN DigitVal(text[i]) % 2 ELSE 0]

\* the line "File %s streamed and decrypted successfully.\n"
SuccessLine(name) == TextBytes(<<"F">> \o name \o <<"\n">>)

\* (mutant) ReadFull is content with fewer bytes than it was asked for
ReadFull_Short(src, n) ==
    [ok |-> TRUE, buf |-> SubSeq(src, 1, Min(n, Len(src))),
     left |-> SubSeq(src, Min(n, Len(src)) + 1, Len(src))]

\* io.ReadFull of n bytes from a stream that still holds src
ReadFull(src, n) ==
    IF Len(src) < n
    THEN [ok |-> FALSE, buf |-> <<>>, left |-> <<>>]
    ELSE [ok |-> TRUE, buf |-> SubSeq(src, 1, n), left |-> SubSeq(src, n + 1, Len(src))]

\* (mutant) DecryptStream sets up the keystream with an IV of zeros
StreamIV_Zero(buf) == [i \in 1..Len(buf) |-> 0]

\* DecryptStream: the IV of cipher.NewCTR is the buffer ReadFull has filled
StreamIV(buf) == buf

\* fetchAndDecryptHandler: minioClient.GetObject
FetchGetObject(p) ==
    /\ pc[p] = "fetch"
    /\ minioCalls' = [minioCalls EXCEPT ![p] = @ \cup {"GetObject"}]
    /\ \E ok \in BOOLEAN :
          IF ok
          THEN /\ pc' = [pc EXCEPT ![p] = "Stat"]
               /\ UNCHANGED resp
          ELSE Finish(p, Answer(500, 0))
    /\ UNCHANGED <<trackerVars, req, ctxDone, ret, objectName, handed, pipeVars,
                   flowVars, object, header, body, div, dpos, unread, derr>>
    /\ UNCHANGED deadlineVars

\* fetchAndDecryptHandler: object.Stat(), the lookup of the Filename entry and
\* the two response headers. Stat fails when the object is missing or the
\* backend cannot be reached
FetchStat(p) ==
    /\ pc[p] = "Stat"
    /\ minioCalls' = [minioCalls EXCEPT ![p] = @ \cup {"Stat"}]
    /\ \E reachable \in BOOLEAN :
          IF ~reachable \/ ~object.present
          THEN /\ Finish(p, Answer(408, 0))
               /\ UNCHANGED <<header, unread>>
          ELSE IF ~(\E kv \in object.meta : kv[1] = "Filename")
          THEN /\ Finish(p, Answer(408, 0))
               /\ UNCHANGED <<header, unread>>
          ELSE /\ header' = [header EXCEPT ![p] =
                                {<<"Content-Type", <<"application/octet-stream">>>>} \cup
                                {<<"Content-Disposition", kv[2]>> :
                                    kv \in {m \in object.meta : m[1] = "Filename"}}]
               /\ unread' = object.data
               /\ pc' = [pc EXCEPT ![p] = "ReadIV"]
               /\ UNCHANGED resp
    /\ UNCHANGED <<trackerVars, req, ctxDone, ret, objectName, handed, pipeVars,
                   flowVars, object, body, div, dpos, derr>>
    /\ UNCHANGED deadlineVars

\* DecryptStream: io.ReadFull(reader, iv). It fails when the stream ends
\* before the IV is complete, or when a Read of the object fails
FetchReadIV(p) ==
    /\ pc[p] = "ReadIV"
    /\ minioCalls' = [minioCalls EXCEPT ![p] = @ \cup {"Read"}]
    /\ \E fault \in BOOLEAN :
          LET r == ReadFull(unread, BlockSize)
          IN  IF fault \/ ~r.ok
              THEN /\ derr' = IF fault THEN "io" ELSE "short"
                   /\ pc' = [pc EXCEPT ![p] = "Decrypted"]
                   /\ UNCHANGED <<div, unread>>
              ELSE /\ div' = StreamIV(r.buf)
                   /\ unread' = r.left
                   /\ pc' = [pc EXCEPT ![p] = "Copy"]
                   /\ UNCHANGED derr
    /\ UNCHANGED <<trackerVars, req, ctxDone, ret, objectName, resp, handed,
                   pipeVars, flowVars, object, header, body, dpos>>
    /\ UNCHANGED deadlineVars

\* DecryptStream: one turn of io.Copy(writer, sr): a Read through the
\* StreamReader of up to CopyBufLen bytes and the Write of them to the
\* response; io.EOF ends the copy with nil, a failing Read or Write with an error
FetchCopy(p) ==
    /\ pc[p] = "Copy"
    /\ \E fault \in BOOLEAN :
          IF fault
          THEN /\ derr' = "io"
               /\ pc' = [pc EXCEPT ![p] = "Decrypted"]
               /\ UNCHANGED <<body, dpos, unread>>
          ELSE IF unread = <<>>
          THEN /\ derr' = "nil"
               /\ pc' = [pc EXCEPT ![p] = "Decrypted"]
               /\ UNCHANGED <<body, dpos, unread>>
          ELSE LET n == Min(Len(unread), CopyBufLen)
               IN  /\ body' = [body EXCEPT ![p] =
                                  @ \o XorKeyStream(div, dpos, SubSeq(unread, 1, n))]
                   /\ dpos' = dpos + n
                   /\ unread' = SubSeq(unread, n + 1, Len(unread))
                   /\ UNCHANGED <<derr, pc>>
    /\ UNCHANGED <<trackerVars, req, ctxDone, ret, objectName, resp, handed,
                   pipeVars, flowVars, object, minioCalls, header, div>>
    /\ UNCHANGED deadlineVars

\* fetchAndDecryptHandler after DecryptStream has returned: 500 on an error,
\* else the success line is written to the response
FetchFinish(p) ==
    /\ pc[p] = "Decrypted"
    /\ IF derr = "nil"
       THEN /\ body' = [body EXCEPT ![p] = @ \o SuccessLine(objectName[p])]
            /\ Finish(p, Answer(200, req[p].uid))
       ELSE /\ Finish(p, Answer(500, 0))
            /\ UNCHANGED body
    /\ UNCHANGED <<trackerVars, req, ctxDone, ret, objectName, handed, pipeVars,
                   flowVars, object, minioCalls, header, div, dpos, unread, derr>>
    /\ UNCHANGED deadlineVars

\* one fetch request from its arrival to the handler's return
FetchNext ==
    \/ \E p \in Procs : FetchBegin(p)
    \/ \E p \in Procs : FetchContains(p)
    \/ \E p \in Procs : FetchGetObject(p)
    \/ \E p \in Procs : FetchStat(p)
    \/ \E p \in Procs : FetchReadIV(p)
    \/ \E p \in Procs : FetchCopy(p)
    \/ \E p \in Procs : FetchFinish(p)

\* the server is serving, the bucket held the objects "0" and "1" when it
\* started, and one request is still to arrive; what the bucket holds under
\* the name the request will ask for is any of BucketObjects
InitFetch ==
    /\ uids = TrackerInit(ParsedUids(<<FormatUint(0), FormatUint(1)>>))
    /\ mu = 0
    /\ started = TRUE
    /\ inits = 1
    /\ lastInit = <<>>
    /\ uids0 = uids
    /\ pc = [p \in Procs |-> IF p = 1 THEN "idle" ELSE "done"]
    /\ req = [p \in Procs |-> NoReq]
    /\ ctxDone = [p \in Procs |-> FALSE]
    /\ ret = [p \in Procs |-> NoRet]
    /\ objectName = [p \in Procs |-> <<>>]
    /\ resp = [p \in Procs |-> <<>>]
    /\ handed = [u \in UIDs |-> 0]
    /\ s1 = "off"
    /\ s2 = "off"
    /\ s3 = "off"
    /\ wg = 0
    /\ plainPipe = NewPipe
    /\ cipherPipe = NewPipe
    /\ parts = 0
    /\ reads = 0
    /\ firstPart = TRUE
    /\ chunk = <<>>
    /\ errEOF = "nil"
    /\ published = <<>>
    /\ sent = 0
    /\ recv = 0
    /\ metadata = {}
    /\ putInvoked = FALSE
    /\ putN = 0
    /\ putErr = FALSE
    /\ iv = <<>>
    /\ pos = 0
    /\ plain = <<>>
    /\ stored = <<>>
    /\ putKey = <<>>
    /\ object \in BucketObjects
    /\ minioCalls = [p \in Procs |-> {}]
    /\ header = [p \in Procs |-> {}]
    /\ body = [p \in Procs |-> <<>>]
    /\ div = <<>>
    /\ dpos = 0
    /\ unread = <<>>
    /\ derr = "none"
    /\ dstep = "idle"
    /\ dsize = 0
    /\ dtimeout = 0

SpecFetch == InitFetch /\ [][FetchNext]_vars

(* ----------------------- the storage-write deadline -------------------- *)
\* how many MiB, to either side of zero, the declared sizes reach
MaxMiB == 4

\* how many bytes, to either side of a whole MiB, the declared sizes reach
MaxOff == 3

\* safetySeconds
SafetySeconds == 10

\* minRateBytes
MinRateBytes == 1024 * 1024 * 1

\* the decimal text of a signed integer, as a client writes it in File-Size
FormatInt(n) == IF n < 0 THEN <<"-">> \o FormatUint(0 - n) ELSE FormatUint(n)

\* declared sizes for which fileSize + aes.BlockSize lies on, just below or
\* just above a whole number of MiB, negative ones included
DeadlineSizes ==
    {k * MinRateBytes + d - BlockSize : k \in (0 - MaxMiB)..MaxMiB,
                                        d \in (0 - MaxOff)..MaxOff}

\* File-Size headers: those sizes in decimal, and a text ParseInt refuses
DeadlineHeaders == {FormatInt(n) : n \in DeadlineSizes} \cup {<<"x">>}

\* int64(math.Ceil(float64(a) / b)): the conversion to float64 and the
\* division by a power of two are exact below 2^53, and Ceil rounds towards
\* plus infinity for either sign
Ceil(a, b) == 0 - ((0 - a) \div b)

\* getMaxNbrRunSeconds, in seconds: the code multiplies the sum by 10^9 to
\* get the nanoseconds of a time.Duration, a factor that is left out here
\* because the products lie outside the integers TLC computes with
getMaxNbrRunSeconds(nbrUploadedBytes) ==
    SafetySeconds + Ceil(nbrUploadedBytes, MinRateBytes)

\* uploadHandler: ParseInt of the File-Size header; an error is answered
\* with 412, any value is taken as fileSize
DeadlineParse ==
    /\ dstep = "idle"
    /\ \E h \in DeadlineHeaders :
          LET r == ParseInt(h)
          IN  IF r.ok
              THEN dsize' = r.val /\ dstep' = "parsed"
              ELSE dsize' = dsize /\ dstep' = "rejected"
    /\ UNCHANGED dtimeout
    /\ UNCHANGED <<trackerVars, procVars, pipeVars, flowVars, fetchVars>>

\* goroutine 3: the timeout of the PutObject context, from minioDataSize
DeadlineCompute ==
    /\ dstep = "parsed"
    /\ LET minioDataSize == dsize + BlockSize
       IN  dtimeout' = getMaxNbrRunSeconds(minioDataSize)
    /\ dstep' = "done"
    /\ UNCHANGED dsize
    /\ UNCHANGED <<trackerVars, procVars, pipeVars, flowVars, fetchVars>>

DeadlineNext == DeadlineParse \/ DeadlineCompute

SpecDeadline == Init /\ [][DeadlineNext]_vars

(* ------------------------- claims: the tracker ------------------------- *)
\* a metadata map has an entry under Filename
HasFilename(m) == \E kv \in m : kv[1] = "Filename"

\* the handler of a request has returned from its tracker call
CallDone(p) == pc[p] \in {"pipeline", "fetch", "done"}

\* C1: no value is handed out with a nil error (by AddUid or GenerateAndAdd)
\* to more than one request
C1_NoDuplicateHandOut == \A u \in UIDs : handed[u] <= 1

\* all requests are uploads with Uid header u, and AddUid(u) has returned in each
AllAddedSame(u) ==
    /\ started
    /\ \A p \in Procs :
          CallDone(p) /\ ret[p].op = "AddUid" /\ ret[p].arg = u

\* C2: of N concurrent AddUid calls with the same candidate, not reserved
\* beforehand, exactly one returns a nil error and the others the conflict
\* error; and at no time have two AddUid calls succeeded with one candidate
C2_OneWinner ==
    /\ \A u \in UIDs \ uids0 :
          AllAddedSame(u) =>
             /\ Cardinality({p \in Procs : ret[p].err = "nil"}) = 1
             /\ Cardinality({p \in Procs : ret[p].err = "conflict"}) = NumProcs - 1
    /\ \A p, q \in Procs :
          (/\ p # q
           /\ ret[p].op = "AddUid" /\ ret[q].op = "AddUid"
           /\ ret[p].arg = ret[q].arg) => ~(ret[p].err = "nil" /\ ret[q].err = "nil")

C2_Witness == \E u \in UIDs \ uids0 : AllAddedSame(u)

\* the step in which the tracker call of request p returns
Returns(p, op) == ret[p].op = "none" /\ ret'[p].op = op

\* C3: a GenerateAndAdd that returns a nil error returns a UID that was not
\* in the set before the call and is in it after the call
C3_GeneratedIsFresh ==
    [][\A p \in Procs :
         (Returns(p, "GenerateAndAdd") /\ ret'[p].err = "nil") =>
            (ret'[p].val \notin uids /\ ret'[p].val \in uids')]_vars

\* C4: AddUid with a reserved candidate returns the conflict error, its
\* recommended UID is not in the set at the return, and the set is unchanged
C4_ConflictRecommendsFree ==
    [][\A p \in Procs :
         (Returns(p, "AddUid") /\ ret'[p].arg \in uids) =>
            /\ ret'[p].err = "conflict"
            /\ ret'[p].rec \notin uids'
            /\ uids' = uids]_vars

C4_Witness ==
    \E p \in Procs :
       ret[p].op = "AddUid" /\ ret[p].arg \in uids0 /\ ret[p].err = "conflict"

\* C5: GenerateAndAdd with a context that is already done returns the timeout
\* error and reserves nothing
C5_ExpiredReservesNothing ==
    [][\A p \in Procs :
         (Returns(p, "GenerateAndAdd") /\ ctxDone[p]) =>
            (ret'[p].err = "timeout" /\ uids' = uids)]_vars

C5_Witness ==
    \E p \in Procs :
       ret[p].op = "GenerateAndAdd" /\ ctxDone[p] /\ uids # UIDs

\* C6: after Init(S), Contains(x) is true exactly for the x that occur in S
C6_InitExact ==
    (~started /\ inits > 0) =>
       \A x \in UIDs : Contains(x) <=> (\E i \in 1..Len(lastInit) : lastInit[i] = x)

\* Init was called on a tracker that held something, with a duplicate in S
C6_Witness ==
    /\ ~started
    /\ inits > 1
    /\ Len(lastInit) > 1
    /\ lastInit[1] = lastInit[2]

(* ------------------------ claims: the pipeline ------------------------- *)
HandlerReturned == \A p \in Procs : pc[p] = "done"

\* goroutine 1 has returned without having read any part: MultipartReader
\* failed, or the first NextPart gave an error or io.EOF
DemuxEndedEarly == s1 = "done" /\ parts = 0

\* a fault of another kind: the IV could not be drawn, or a Read of a part
\* gave an error other than io.EOF
OtherFault == cipherPipe.done = "err" \/ errEOF = "err"

\* C7: when the demultiplex stage ends before it has read any part, the
\* plaintext pipe is closed, the encrypt and store stages terminate and the
\* handler returns (stated for the uploads without a fault of another kind)
C7_EarlyEndAborts ==
    DemuxEndedEarly ~>
       \/ plainPipe.done = "EOF" /\ s2 = "done" /\ s3 = "done" /\ HandlerReturned
       \/ OtherFault

\* PutObject has failed while a Write of goroutine 1 or 2 is still pending
StoreFailedMidway ==
    s3 = "done" /\ putErr /\ (plainPipe.offered \/ cipherPipe.offered)

\* C8: when the storage write fails or times out while an earlier stage still
\* has bytes to write, all three stages terminate and the handler returns
\* (stated for the uploads without a fault of another kind)
C8_StoreFailureAborts ==
    StoreFailedMidway ~>
       \/ s1 = "done" /\ s2 = "done" /\ s3 = "done" /\ HandlerReturned
       \/ OtherFault

\* C9: in every upload the filename is sent exactly once by the demultiplex
\* stage and received exactly once by the store stage: never twice, and once
\* by the time the demultiplex stage has finished
C9_FilenameExactlyOnce ==
    /\ sent <= 1
    /\ recv <= 1
    /\ sent = recv
    /\ s1 = "done" => sent = 1


\* C10: PutObject is not invoked before the demultiplex stage has published
\* the filename, and its metadata holds a Filename entry exactly if the
\* published filename is not empty
C10_PutAfterFilename ==
    putInvoked =>
       /\ sent = 1
       /\ recv = 1
       /\ HasFilename(metadata) <=> published # <<>>

C10_Witness ==
    /\ putInvoked
    /\ published = <<"d", "/", "a">>
    /\ metadata = {<<"Filename", <<"a">>>>}

\* an upload that runs to its end without any error
CleanUpload ==
    /\ HandlerReturned
    /\ s1 = "done" /\ s2 = "done" /\ s3 = "done"
    /\ ~putErr
    /\ \E p \in Procs : Len(resp[p]) = 1 /\ resp[p][1].code = 200

\* the success line is in the response of request p
SuccessWritten(p) == \E i \in 1..Len(resp[p]) : resp[p][i].code = 200

\* one of the goroutines of request p has answered with http.Error
ErrorReported(p) == \E i \in 1..Len(resp[p]) : resp[p][i].code \notin {0, 200}

(* -------------------------- claims: the fetch -------------------------- *)
\* the fetch of request p has ended with its success line and no http.Error
FetchSucceeded(p) ==
    /\ req[p].kind = "fetch"
    /\ pc[p] = "done"
    /\ resp[p] = <<Answer(200, req[p].uid)>>

\* C11: a successful fetch of an object that a successful upload of src has
\* stored answers with a body that is exactly src
C11_FetchedBodyIsPlain ==
    \A p \in Procs : \A v \in IVs, src \in PlainTexts, name \in FileNames :
       (FetchSucceeded(p) /\ object = UploadedObject(v, src, name)) =>
          body[p] = src

\* DecryptStream has returned in the fetch of request p
DecryptReturned(p) == pc[p] = "Decrypted"

\* C12: DecryptStream on the complete output of EncryptStream(src), with no
\* failing Read or Write, writes exactly src to its sink and returns nil
C12_RoundTrip ==
    \A p \in Procs : \A v \in IVs, src \in PlainTexts :
       (DecryptReturned(p) /\ object.data = EncryptStream(v, src) /\ derr # "io") =>
          (derr = "nil" /\ body[p] = src)

\* the round trip of a plaintext of more than one byte under the IV of ones
C12_Witness ==
    \E p \in Procs : \E v \in IVs, src \in PlainTexts :
       /\ DecryptReturned(p)
       /\ object.data = EncryptStream(v, src)
       /\ derr = "nil"
       /\ v[1] = 1
       /\ Len(src) > 1

\* C14: a fetch of a UID that is not in the set is answered with 404 alone,
\* makes no storage call and leaves the set as it was
C14_UnknownIsNotFound ==
    \A p \in Procs :
       (/\ req[p].kind = "fetch"
        /\ pc[p] \notin {"idle", "Contains"}
        /\ req[p].uid \notin uids0) =>
          /\ pc[p] = "done"
          /\ resp[p] = <<Answer(404, 0)>>
          /\ minioCalls[p] = {}
          /\ uids = uids0

C14_Witness ==
    \E p \in Procs :
       req[p].kind = "fetch" /\ req[p].uid \notin uids0 /\ pc[p] = "done"

\* the object of the fetch could not be read or stat'ed, or has no Filename
NotServable(p) ==
    /\ req[p].kind = "fetch"
    /\ pc[p] = "done"
    /\ minioCalls[p] # {}
    /\ \/ ~object.present
       \/ ~HasFilename(object.meta)
       \/ ~SuccessWritten(p)

\* C15: a fetch of a reserved UID whose object cannot be read or stat'ed, or
\* lacks the Filename entry, is answered with 500 and writes no decrypted byte
C15_StorageFaultIs500 ==
    \A p \in Procs :
       NotServable(p) => (resp[p] = <<Answer(500, 0)>> /\ body[p] = <<>>)

\* C17: DecryptStream on a source that ends before 16 bytes returns an error
\* and writes nothing to its sink
C17_ShortSourceFails ==
    \A p \in Procs :
       (DecryptReturned(p) /\ Len(object.data) < BlockSize) =>
          (derr # "nil" /\ body[p] = <<>>)

\* DecryptStream has returned on a source of 15 bytes that were all delivered
C17_Witness ==
    \E p \in Procs :
       DecryptReturned(p) /\ Len(object.data) = BlockSize - 1 /\ derr = "short"

(* ------------------------- claims: the upload -------------------------- *)
\* C13: the success line of an upload is written only if none of the three
\* stages has reported an error for the request
C13_SuccessOnlyIfClean ==
    \A p \in Procs : SuccessWritten(p) => ~ErrorReported(p)

\* a header text that neither ParseInt nor ParseUint takes (the texts of the
\* model carry no sign)
Malformed(text) == text = <<>> \/ \E i \in 1..Len(text) : ~IsDigit(text[i])

\* request p is an upload that carried a File-Size header that cannot be
\* parsed, or a good File-Size header and a Uid header that cannot be parsed
BadHeaders(p) ==
    /\ req[p].kind = "upload"
    /\ req[p].size # NoHeader
    /\ \/ Malformed(req[p].size)
       \/ req[p].text # NoHeader /\ Malformed(req[p].text)

\* C16: an upload whose File-Size or Uid header cannot be parsed is answered
\* with 412 and nothing else: the set is as it was, no tracker call was made,
\* no stage was started and PutObject was not called
C16_BadHeaderNoEffect ==
    \A p \in Procs :
       BadHeaders(p) =>
          /\ pc[p] = "done"
          /\ resp[p] = <<Answer(412, 0)>>
          /\ ret[p].op = "none"
          /\ uids = uids0
          /\ s1 = "off" /\ s2 = "off" /\ s3 = "off"
          /\ ~putInvoked

\* a good File-Size header with a Uid header that is not a number
C16_Witness ==
    \E p \in Procs :
       BadHeaders(p) /\ ~Malformed(req[p].size) /\ req[p].text = <<"x">>

\* C19: once the server serves, no step takes a UID out of the set
C19_SetOnlyGrows == [][started => uids \subseteq uids']_vars

\* an upload has reserved a UID, its storage write has failed, the handler has
\* returned, and the UID is still reserved
C19_Witness ==
    \E p \in Procs :
       /\ pc[p] = "done"
       /\ putErr
       /\ ret[p].err = "nil"
       /\ ret[p].val \notin uids0
       /\ ret[p].val \in uids

\* C20: the handler of an upload writes the success line and returns only
\* when the three goroutines have returned
C20_JoinBeforeReturn ==
    \A p \in Procs :
       (SuccessWritten(p) \/ (pc[p] = "done" /\ s1 # "off" /\ ret[p].err = "nil"
                                /\ ret[p].op # "none")) =>
          (s1 = "done" /\ s2 = "done" /\ s3 = "done" /\ wg = 0)

\* the success line was written after a stage had reported an error
C20_Witness ==
    \E p \in Procs : SuccessWritten(p) /\ ErrorReported(p) /\ s3 = "done"

\* request p is an upload with a Uid header that parses to a value that was
\* free, and its tracker call has returned
FreeCandidate(p) ==
    /\ req[p].kind = "upload"
    /\ req[p].text # NoHeader
    /\ ~Malformed(req[p].text)
    /\ DigitsValue(req[p].text) \notin uids0
    /\ ret[p].op # "none"

\* C21: an upload with a parseable Uid header whose value is free reserves
\* exactly that value, calls PutObject under the decimal text of the value,
\* and names the value in the success line
C21_CandidateIsUsed ==
    \A p \in Procs :
       FreeCandidate(p) =>
          LET candidate == DigitsValue(req[p].text)
          IN  /\ ret[p].op = "AddUid"
              /\ ret[p].err = "nil"
              /\ ret[p].val = candidate
              /\ uids = uids0 \cup {candidate}
              /\ putInvoked => putKey = FormatUint(candidate)
              /\ \A i \in 1..Len(resp[p]) :
                    resp[p][i].code = 200 => resp[p][i].uid = candidate

\* the upload with Uid: 01 has been stored under "1" and answered
C21_Witness ==
    \E p \in Procs :
       /\ FreeCandidate(p)
       /\ req[p].text = <<"0", "1">>
       /\ putKey = <<"1">>
       /\ SuccessWritten(p)

\* bytes goroutine 1 has read from the parts that goroutine 2 has not taken
PlainInFlight == Len(plain) - pos

\* bytes goroutine 2 has written (the IV, then what it has encrypted) that
\* PutObject has not taken
CipherInFlight == (IF iv = <<>> THEN 0 ELSE BlockSize) + pos - Len(stored)

\* C22: each pipe holds at most the one slice of a Write that has not
\* returned, the writer stays in that Write until the slice is read, and so
\* the bytes in flight never exceed one chunk per connector
C22_Backpressure ==
    /\ plainPipe.offered => s1 = "Write"
    /\ cipherPipe.offered => s2 \in {"WriteIV", "Write"}
    /\ PlainInFlight = Len(plainPipe.data) + Len(chunk)
    /\ PlainInFlight <= MaxChunkLen
    /\ CipherInFlight = Len(cipherPipe.data)
    /\ CipherInFlight <= (IF BlockSize > CopyBufLen THEN BlockSize ELSE CopyBufLen)

\* both pipes hold a slice while PutObject is running, the plaintext one a
\* full chunk, after more than a chunk has gone through
C22_Witness ==
    /\ s3 = "Put"
    /\ plainPipe.offered /\ Len(plainPipe.data) = MaxChunkLen
    /\ cipherPipe.offered
    /\ Len(plain) > MaxChunkLen

\* C23: a tracker call that has taken the mutex returns and releases it,
\* whatever the set holds
C23_LockReleased == (mu # 0) ~> (mu = 0)

\* C25: the deadline is the margin plus the least number of seconds that
\* carries fileSize + 16 bytes at 1 MiB/s, and is not below the margin
C25_DeadlineAtLeastMargin ==
    dstep = "done" =>
       LET n == dsize + BlockSize
           q == dtimeout - SafetySeconds
       IN  /\ q * MinRateBytes >= n
           /\ (q - 1) * MinRateBytes < n
           /\ dtimeout >= SafetySeconds

\* C24: once a Read of a part has returned an error other than io.EOF,
\* goroutine 1 reads that part no more: it is never back at the top of the
\* inner loop, about to call nextPart.Read again
C24_ReadErrorStopsReading == errEOF = "err" => s1 # "Read"

\* C18: when an upload has completed without error, the bytes handed to the
\* storage write are the IV followed by the encryption of the bytes of all
\* parts in their order, so the total part byte count plus 16
C18_StoredIsEncryptedPlain ==
    CleanUpload =>
       /\ stored = EncryptStream(iv, plain)
       /\ Len(stored) = Len(plain) + BlockSize

\* a clean upload of two parts whose bytes differ
C18_Witness ==
    /\ CleanUpload
    /\ parts = 2
    /\ \E i, j \in 1..Len(plain) : plain[i] # plain[j]

TypeOK ==
    /\ uids \subseteq UIDs
    /\ dstep \in {"idle", "parsed", "rejected", "done"}
    /\ mu \in 0..NumProcs
    /\ \A p \in Procs : ret[p].val \in UIDs
    /\ s1 \in {"off", "MultipartReader", "NextPart", "Read", "Send", "Write", "done"}
    /\ s2 \in {"off", "EncryptStream", "WriteIV", "Copy", "Write", "done"}
    /\ s3 \in {"off", "Recv", "Put", "done"}
    /\ wg \in 0..3
    /\ parts \in 0..MaxParts
    /\ reads \in 0..MaxReads
    /\ sent \in Nat /\ recv \in Nat /\ putN \in Nat /\ pos \in Nat
    /\ plainPipe.data \in Chunks
    /\ plainPipe.offered \/ plainPipe.data = <<>>
    /\ cipherPipe.offered \/ cipherPipe.data = <<>>
    /\ Len(stored) = putN
    /\ object \in BucketObjects
    /\ derr \in {"none", "nil", "short", "io"}
    /\ dpos \in Nat
    /\ \A p \in Procs : minioCalls[p] \subseteq {"GetObject", "Stat", "Read"}

====
